---- MODULE Spec2Model ----
\* Book Rental API (src/api.py): the catalog `books`, the ledger `rentals`
\* and the two mutating handlers rent_book and return_book, each run to
\* completion as one step (a synchronous FastAPI handler), and the three
\* read handlers list_books, display_details and list_user_books.
EXTENDS Integers, Sequences, FiniteSets, Bags, TLC

\* ------------------------------------------------------------------ bounds

MaxCopies == 2      \* largest total copy count of a source entry
MaxRentals == 2     \* number of distinct rental ids uuid4 can draw

\* ------------------------------------------------------------------ inputs

BookIds == {"123", "456"}                 \* isbns a source document may hold
UnknownBook == "unknown-isbn"
ReqBookIds == BookIds \cup {UnknownBook}  \* book_id path parameters
Users == {"alice", "bob", "carol"}        \* user_id query parameters
RentalPool == <<"r1", "r2", "r3", "r4", "r5">>
RentalIds == {RentalPool[i] : i \in 1..MaxRentals}  \* rental_id path parameters

Workers == {"w1", "w2"}                   \* threadpool workers running handlers

None == <<>>            \* Python None, in returned_at and in a failed response
NoRental == "None"      \* no rental id in the response
Instants == {"T"}       \* what datetime.now() can read
isoformat(t) == <<t>>   \* datetime.isoformat(): a non-None value carrying t

VARIABLES
    source,   \* the content of books.json read by load()
    books,    \* api.py:28   isbn -> book dict
    rentals,  \* api.py:29   rental id -> rental dict
    resp,     \* the last request and its response (status, detail, body)
    scn,      \* how many calls of the documented scenario the run has made so far
    threads   \* per threadpool worker: the handler it is inside of, and its locals

vars == <<source, books, rentals, resp, scn, threads>>

\* ------------------------------------------------------------------ load

\* A source entry: isbn, a total copy count under one of the two key
\* spellings, and optionally available_copies.
Entry(isbn, key, total) == (key :> total) @@ [isbn |-> isbn]

WithAvailable(e, a) == e @@ ("available_copies" :> a)

\* Entries of "123": either key spelling, any total in 1..MaxCopies, and
\* available_copies absent or anything in 0..total+1 (one above is an override
\* the source data can carry).
Entries ==
    LET bare == {Entry("123", k, n) : k \in {"total_copies", "totalCopies"}, n \in 1..MaxCopies}
    IN  bare \cup UNION {{WithAvailable(e, a) : a \in 0..(e[CHOOSE k \in DOMAIN e : k # "isbn"] + 1)}
                         : e \in bare}

\* Entries of "456": one copy, under either key spelling, no available_copies.
OtherEntries == {Entry("456", k, 1) : k \in {"total_copies", "totalCopies"}}

\* books.json: unreadable or malformed (ok = FALSE), or a document whose
\* "books" list holds at most one entry per isbn.
Docs ==
    UNION {{d \in [S -> Entries \cup OtherEntries] : \A b \in S : d[b].isbn = b}
           : S \in SUBSET BookIds}

Sources == {[ok |-> FALSE, books |-> <<>>]} \cup {[ok |-> TRUE, books |-> d] : d \in Docs}

\* api.py:41-43: an entry without available_copies gets book["totalCopies"];
\* the KeyError of an entry that has neither key is raised here.
Normalizable(e) == "available_copies" \in DOMAIN e \/ "totalCopies" \in DOMAIN e

Normalize(e) ==
    IF "available_copies" \in DOMAIN e THEN e ELSE WithAvailable(e, e["totalCopies"])

\* Mutant of load: the except branch does not reset the catalog, which keeps
\* what line 39 assigned.
load_partial(src) ==
    IF ~src.ok THEN <<>>
    ELSE IF \E b \in DOMAIN src.books : ~Normalizable(src.books[b]) THEN src.books
    ELSE [b \in DOMAIN src.books |-> Normalize(src.books[b])]

\* api.py:34-47: the catalog after load(); any exception empties it.
load(src) ==
    IF ~src.ok THEN <<>>
    ELSE IF \E b \in DOMAIN src.books : ~Normalizable(src.books[b]) THEN <<>>
    ELSE [b \in DOMAIN src.books |-> Normalize(src.books[b])]

\* The total copy count of a book dict, under whichever key the source used.
total_copies(book) ==
    IF "total_copies" \in DOMAIN book THEN book["total_copies"] ELSE book["totalCopies"]

\* ------------------------------------------------------------------ helpers

\* api.py:99, 154 datetime.now()
now == Instants

\* Mutant of uuid4: ids that may repeat one already in the ledger.
uuid4_reused == RentalIds

\* api.py:95 uuid.uuid4(): an id no rental carries yet.
uuid4 == RentalIds \ DOMAIN rentals

\* Mutant of NoCopies: the guard lets a book with 0 copies through.
NoCopies_negative(book) == book["available_copies"] < 0

\* api.py:82
NoCopies(book) == book["available_copies"] <= 0

\* Mutant of user_has_book: the returned_at test inverted.
user_has_book_returned(book_id, user_id) ==
    \E r \in DOMAIN rentals :
        /\ rentals[r].user_id = user_id
        /\ rentals[r].book_id = book_id
        /\ rentals[r].returned_at # None

\* Mutant of user_has_book: the returned_at test left out, so a returned
\* rental still counts.
user_has_book_ever(book_id, user_id) ==
    \E r \in DOMAIN rentals :
        /\ rentals[r].user_id = user_id
        /\ rentals[r].book_id = book_id

\* api.py:85-90
user_has_book(book_id, user_id) ==
    \E r \in DOMAIN rentals :
        /\ rentals[r].user_id = user_id
        /\ rentals[r].book_id = book_id
        /\ rentals[r].returned_at = None

\* Mutant of NotOwner: the ownership check left out.
NotOwner_unchecked(rental, user_id) == FALSE

\* api.py:143
NotOwner(rental, user_id) == rental.user_id # user_id

\* Mutant of AlreadyReturned: the already-returned check left out.
AlreadyReturned_unchecked(rental) == FALSE

\* api.py:146
AlreadyReturned(rental) == rental.returned_at # None

\* Mutant of BookMissing: the test inverted.
BookMissing_inverted(book_id) == book_id \in DOMAIN books

\* api.py:151 `if not book`: the lookup gave None (a book dict is never empty)
BookMissing(book_id) == book_id \notin DOMAIN books

\* api.py:96-101
NewRental(user_id, book_id, t) ==
    [user_id |-> user_id, book_id |-> book_id,
     rented_at |-> isoformat(t), returned_at |-> None]

\* Mutant of Decrement: the copy is not taken off the shelf.
Decrement_none(book) == book

\* api.py:102
Decrement(book) == [book EXCEPT !["available_copies"] = @ - 1]

\* Mutant of Increment: the copy is not put back.
Increment_none(book) == book

\* api.py:155
Increment(book) == [book EXCEPT !["available_copies"] = @ + 1]

\* Mutant of MarkReturned: the return timestamp is not stored.
MarkReturned_none(rental, t) == rental

\* api.py:154
MarkReturned(rental, t) == [rental EXCEPT !.returned_at = isoformat(t)]

\* ------------------------------------------------------------------ scenario

\* The documented scenario, as the calls it makes: call k+1 is recognised in
\* the state where k calls of it have been made; any other call leaves it.
Off == 0 - 1

ScenarioRent(book_id, user_id) ==
    IF book_id = "123" /\
       \/ scn \in {0, 1} /\ user_id = "alice"
       \/ scn = 2 /\ user_id = "bob"
       \/ scn = 3 /\ user_id = "carol"
    THEN scn + 1 ELSE Off

ScenarioReturn(rental_id, user_id) ==
    IF /\ scn \in {4, 5}
       /\ user_id = "alice"
       /\ rental_id \in DOMAIN rentals
       /\ rentals[rental_id].user_id = "alice"
    THEN scn + 1 ELSE Off

\* ------------------------------------------------------------------ responses

Request(op, book_id, user_id, rental_id) ==
    [op |-> op, book_id |-> book_id, user_id |-> user_id, rental_id |-> rental_id]

\* raise HTTPException(status_code, detail): the handler ends without a write.
HTTPException(req, status_code, detail) ==
    /\ resp' = req @@ [status |-> status_code, detail |-> detail, book |-> None]
    /\ UNCHANGED <<books, rentals>>

\* A 200 response with the handler's body.
Ok(req, message, book) ==
    resp' = req @@ [status |-> 200, detail |-> message, book |-> book]

\* ------------------------------------------------------------------ handlers

\* Mutant of rent_book: the "already rented" check made before the
\* "no copies" check.
rent_book_swapped(book_id, user_id) ==
    LET req == Request("rent_book", book_id, user_id, NoRental) IN
    /\ scn' = ScenarioRent(book_id, user_id)
    /\ UNCHANGED source
    /\ IF book_id \notin DOMAIN books
       THEN HTTPException(req, 404, "Book was not found")
       ELSE IF user_has_book(book_id, user_id)
       THEN HTTPException(req, 400, "Book already rented by this user")
       ELSE IF NoCopies(books[book_id])
       THEN HTTPException(req, 400, "There are no copies of this book available for rent")
       ELSE \E rental_id \in uuid4 : \E t \in now :
            /\ rentals' = (rental_id :> NewRental(user_id, book_id, t)) @@ rentals
            /\ books' = [books EXCEPT ![book_id] = Decrement(@)]
            /\ Ok([req EXCEPT !.rental_id = rental_id],
                  "Book rented successfully", books'[book_id])

\* api.py:76-108
rent_book(book_id, user_id) ==
    LET req == Request("rent_book", book_id, user_id, NoRental) IN
    /\ scn' = ScenarioRent(book_id, user_id)
    /\ UNCHANGED source
    /\ IF book_id \notin DOMAIN books
       THEN HTTPException(req, 404, "Book was not found")
       ELSE IF NoCopies(books[book_id])
       THEN HTTPException(req, 400, "There are no copies of this book available for rent")
       ELSE IF user_has_book(book_id, user_id)
       THEN HTTPException(req, 400, "Book already rented by this user")
       ELSE \E rental_id \in uuid4 : \E t \in now :
            /\ rentals' = (rental_id :> NewRental(user_id, book_id, t)) @@ rentals
            /\ books' = [books EXCEPT ![book_id] = Decrement(@)]
            /\ Ok([req EXCEPT !.rental_id = rental_id],
                  "Book rented successfully", books'[book_id])

\* Mutant of return_book: the already-returned check made before the
\* ownership check.
return_book_swapped(rental_id, user_id) ==
    LET req == Request("return_book", NoRental, user_id, rental_id) IN
    /\ scn' = ScenarioReturn(rental_id, user_id)
    /\ UNCHANGED source
    /\ IF rental_id \notin DOMAIN rentals
       THEN HTTPException(req, 404, "Rental not found")
       ELSE IF AlreadyReturned(rentals[rental_id])
       THEN HTTPException(req, 400, "Book already returned")
       ELSE IF NotOwner(rentals[rental_id], user_id)
       THEN HTTPException(req, 403, "Unauthorized: This rental belongs to another user")
       ELSE IF BookMissing(rentals[rental_id].book_id)
       THEN HTTPException(req, 404, "Book not found")
       ELSE \E t \in now :
            LET book_id == rentals[rental_id].book_id IN
            /\ rentals' = [rentals EXCEPT ![rental_id] = MarkReturned(@, t)]
            /\ books' = [books EXCEPT ![book_id] = Increment(@)]
            /\ Ok(req, "Book returned successfully", books'[book_id])

\* api.py:136-161
return_book(rental_id, user_id) ==
    LET req == Request("return_book", NoRental, user_id, rental_id) IN
    /\ scn' = ScenarioReturn(rental_id, user_id)
    /\ UNCHANGED source
    /\ IF rental_id \notin DOMAIN rentals
       THEN HTTPException(req, 404, "Rental not found")
       ELSE IF NotOwner(rentals[rental_id], user_id)
       THEN HTTPException(req, 403, "Unauthorized: This rental belongs to another user")
       ELSE IF AlreadyReturned(rentals[rental_id])
       THEN HTTPException(req, 400, "Book already returned")
       ELSE IF BookMissing(rentals[rental_id].book_id)
       THEN HTTPException(req, 404, "Book not found")
       ELSE \E t \in now :
            LET book_id == rentals[rental_id].book_id IN
            /\ rentals' = [rentals EXCEPT ![rental_id] = MarkReturned(@, t)]
            /\ books' = [books EXCEPT ![book_id] = Increment(@)]
            /\ Ok(req, "Book returned successfully", books'[book_id])

\* api.py:56-58: list(books.values()), as a bag (the order is left out).
list_books ==
    /\ scn' = Off
    /\ UNCHANGED <<source, books, rentals>>
    /\ Ok(Request("list_books", NoRental, NoRental, NoRental), "",
          SetToBag({books[b] : b \in DOMAIN books}))

\* api.py:65-70
display_details(book_id) ==
    LET req == Request("display_details", book_id, NoRental, NoRental) IN
    /\ scn' = Off
    /\ UNCHANGED source
    /\ IF book_id \in DOMAIN books
       THEN Ok(req, "", books[book_id]) /\ UNCHANGED <<books, rentals>>
       ELSE HTTPException(req, 404, "Book was not found")

\* Mutant of user_rentals: the returned_at test left out.
user_rentals_all(user_id) ==
    {r \in DOMAIN rentals : rentals[r].user_id = user_id}

\* api.py:116-119: the ledger records the list is built from.
user_rentals(user_id) ==
    {r \in DOMAIN rentals :
        rentals[r].user_id = user_id /\ rentals[r].returned_at = None}

\* api.py:125-127: a copy of the book dict with the two annotations; the
\* rental dict's own "rental_id" key is read, None when it has none.
book_info(r) ==
    [rental_id |-> IF "rental_id" \in DOMAIN rentals[r]
                   THEN rentals[r]["rental_id"] ELSE NoRental,
     rented_at |-> rentals[r].rented_at] @@ books[rentals[r].book_id]

\* api.py:121-128: one entry per rental whose book is in the catalog, as a
\* bag (the order is left out).
RECURSIVE user_books(_)
user_books(rs) ==
    IF rs = {} THEN EmptyBag
    ELSE LET r == CHOOSE x \in rs : TRUE
         IN  (IF rentals[r].book_id \in DOMAIN books
              THEN SetToBag({book_info(r)}) ELSE EmptyBag) (+) user_books(rs \ {r})

\* Mutant of list_user_books: the annotations written to the catalog's own
\* book dict instead of a copy.
list_user_books_inplace(user_id) ==
    /\ scn' = Off
    /\ UNCHANGED <<source, rentals>>
    /\ books' = [b \in DOMAIN books |->
                    IF \E r \in user_rentals(user_id) : rentals[r].book_id = b
                    THEN book_info(CHOOSE r \in user_rentals(user_id) : rentals[r].book_id = b)
                    ELSE books[b]]
    /\ Ok(Request("list_user_books", NoRental, user_id, NoRental), "",
          user_books(user_rentals(user_id)))

\* api.py:114-130
list_user_books(user_id) ==
    /\ scn' = Off
    /\ UNCHANGED <<source, books, rentals>>
    /\ Ok(Request("list_user_books", NoRental, user_id, NoRental), "",
          user_books(user_rentals(user_id)))

\* ------------------------------------------------------------------ handlers on threads

\* rent_book and return_book are plain `def` handlers, which FastAPI runs on
\* threadpool workers; nothing in api.py locks the tables. A handler's checks
\* and its writes are then two steps, and another worker may run in between.
Idle == [pc |-> "idle", book_id |-> NoRental, user_id |-> NoRental, rental_id |-> NoRental]

\* api.py:78-93: the checks of rent_book; a worker that passes them goes on
\* to the writes.
rent_check(w, book_id, user_id) ==
    LET req == Request("rent_book", book_id, user_id, NoRental) IN
    /\ threads[w].pc = "idle"
    /\ UNCHANGED <<source, scn>>
    /\ IF book_id \notin DOMAIN books
       THEN HTTPException(req, 404, "Book was not found") /\ UNCHANGED threads
       ELSE IF NoCopies(books[book_id])
       THEN /\ HTTPException(req, 400, "There are no copies of this book available for rent")
            /\ UNCHANGED threads
       ELSE IF user_has_book(book_id, user_id)
       THEN HTTPException(req, 400, "Book already rented by this user") /\ UNCHANGED threads
       ELSE /\ threads' = [threads EXCEPT ![w] =
                    [pc |-> "rent_write", book_id |-> book_id,
                     user_id |-> user_id, rental_id |-> NoRental]]
            /\ UNCHANGED <<books, rentals, resp>>

\* api.py:95-108: the writes of rent_book.
rent_write(w) ==
    LET book_id == threads[w].book_id
        user_id == threads[w].user_id
    IN  /\ threads[w].pc = "rent_write"
        /\ UNCHANGED <<source, scn>>
        /\ \E rental_id \in uuid4 : \E t \in now :
            /\ rentals' = (rental_id :> NewRental(user_id, book_id, t)) @@ rentals
            /\ books' = [books EXCEPT ![book_id] = Decrement(@)]
            /\ Ok(Request("rent_book", book_id, user_id, rental_id),
                  "Book rented successfully", books'[book_id])
        /\ threads' = [threads EXCEPT ![w] = Idle]

\* api.py:138-152: the checks of return_book.
return_check(w, rental_id, user_id) ==
    LET req == Request("return_book", NoRental, user_id, rental_id) IN
    /\ threads[w].pc = "idle"
    /\ UNCHANGED <<source, scn>>
    /\ IF rental_id \notin DOMAIN rentals
       THEN HTTPException(req, 404, "Rental not found") /\ UNCHANGED threads
       ELSE IF NotOwner(rentals[rental_id], user_id)
       THEN /\ HTTPException(req, 403, "Unauthorized: This rental belongs to another user")
            /\ UNCHANGED threads
       ELSE IF AlreadyReturned(rentals[rental_id])
       THEN HTTPException(req, 400, "Book already returned") /\ UNCHANGED threads
       ELSE IF BookMissing(rentals[rental_id].book_id)
       THEN HTTPException(req, 404, "Book not found") /\ UNCHANGED threads
       ELSE /\ threads' = [threads EXCEPT ![w] =
                    [pc |-> "return_write", book_id |-> rentals[rental_id].book_id,
                     user_id |-> user_id, rental_id |-> rental_id]]
            /\ UNCHANGED <<books, rentals, resp>>

\* api.py:154-161: the writes of return_book.
return_write(w) ==
    LET book_id == threads[w].book_id
        rental_id == threads[w].rental_id
    IN  /\ threads[w].pc = "return_write"
        /\ UNCHANGED <<source, scn>>
        /\ \E t \in now :
            /\ rentals' = [rentals EXCEPT ![rental_id] = MarkReturned(@, t)]
            /\ books' = [books EXCEPT ![book_id] = Increment(@)]
            /\ Ok(Request("return_book", NoRental, threads[w].user_id, rental_id),
                  "Book returned successfully", books'[book_id])
        /\ threads' = [threads EXCEPT ![w] = Idle]

\* ------------------------------------------------------------------ specification

NoCall == Request("none", NoRental, NoRental, NoRental)
          @@ [status |-> 0, detail |-> "", book |-> None]

\* api.py:28-29, 49: module import leaves the catalog loaded and the ledger empty.
Init ==
    /\ source \in Sources
    /\ books = load(source)
    /\ rentals = <<>>
    /\ resp = NoCall
    /\ scn = 0
    /\ threads = [w \in Workers |-> Idle]

\* One request at a time, each handled to completion.
RentBook ==
    \E book_id \in ReqBookIds, user_id \in Users :
        rent_book(book_id, user_id) /\ UNCHANGED threads

ReturnBook ==
    \E rental_id \in RentalIds, user_id \in Users :
        return_book(rental_id, user_id) /\ UNCHANGED threads

ListBooks == list_books /\ UNCHANGED threads

DisplayDetails == \E book_id \in ReqBookIds : display_details(book_id) /\ UNCHANGED threads

ListUserBooks == \E user_id \in Users : list_user_books(user_id) /\ UNCHANGED threads

Next == RentBook \/ ReturnBook \/ ListBooks \/ DisplayDetails \/ ListUserBooks

Spec == Init /\ [][Next]_vars

\* Requests handled on the threadpool workers, with no lock.
RentCheck ==
    \E w \in Workers, book_id \in ReqBookIds, user_id \in Users : rent_check(w, book_id, user_id)

RentWrite == \E w \in Workers : rent_write(w)

ReturnCheck ==
    \E w \in Workers, rental_id \in RentalIds, user_id \in Users :
        return_check(w, rental_id, user_id)

ReturnWrite == \E w \in Workers : return_write(w)

NextConcurrent == RentCheck \/ RentWrite \/ ReturnCheck \/ ReturnWrite

SpecConcurrent == Init /\ [][NextConcurrent]_vars

\* ------------------------------------------------------------------ properties

loaded == load(source)                       \* the catalog as load() left it
available(b) == books[b]["available_copies"]

Outstanding(b) ==
    {r \in DOMAIN rentals : rentals[r].book_id = b /\ rentals[r].returned_at = None}

Returned(b) ==
    {r \in DOMAIN rentals : rentals[r].book_id = b /\ rentals[r].returned_at # None}

LoadedWithinTotal ==
    \A b \in DOMAIN loaded :
        /\ 0 <= loaded[b]["available_copies"]
        /\ loaded[b]["available_copies"] <= total_copies(loaded[b])

\* C1: when every book was loaded with 0 <= available_copies <= total_copies,
\* every book still has 0 <= available_copies <= total_copies after any
\* sequence of rent_book and return_book calls.
C1_AvailableWithinTotal ==
    LoadedWithinTotal =>
        \A b \in DOMAIN books :
            /\ 0 <= available(b)
            /\ available(b) <= total_copies(books[b])

\* C1 witness: a copy has been rented and returned, and the shelf is full again.
C1_Witness ==
    /\ LoadedWithinTotal
    /\ \E b \in DOMAIN books :
        /\ Returned(b) # {}
        /\ available(b) = total_copies(books[b])

OneOutstandingPerPair ==
    \A r1 \in DOMAIN rentals, r2 \in DOMAIN rentals :
        (/\ rentals[r1].user_id = rentals[r2].user_id
         /\ rentals[r1].book_id = rentals[r2].book_id
         /\ rentals[r1].returned_at = None
         /\ rentals[r2].returned_at = None) => r1 = r2

HoldsCopy(u, b) == \E r \in Outstanding(b) : rentals[r].user_id = u

\* C2: no (user, book) pair ever has two outstanding rentals, and a rent_book
\* call by a user who holds an outstanding rental of that book gets 400 and
\* adds no rental.
C2_OneOutstandingRental ==
    /\ []OneOutstandingPerPair
    /\ [][(resp'.op = "rent_book" /\ HoldsCopy(resp'.user_id, resp'.book_id))
            => (resp'.status = 400 /\ rentals' = rentals)]_vars

\* C2 witness: the second rent of a held book was refused as already rented.
C2_Witness ==
    /\ resp.op = "rent_book"
    /\ resp.detail = "Book already rented by this user"
    /\ HoldsCopy(resp.user_id, resp.book_id)

\* C7: available_copies of a book is its value at load minus the number of
\* outstanding rentals of the book; for a book loaded with available_copies =
\* total_copies it is total_copies minus the copies on loan, and the copies on
\* loan never exceed total_copies.
C7_AvailableCountsCopiesNotOnLoan ==
    /\ DOMAIN books = DOMAIN loaded
    /\ \A b \in DOMAIN books :
        /\ available(b) = loaded[b]["available_copies"] - Cardinality(Outstanding(b))
        /\ loaded[b]["available_copies"] = total_copies(loaded[b]) =>
            /\ available(b) = total_copies(books[b]) - Cardinality(Outstanding(b))
            /\ Cardinality(Outstanding(b)) <= total_copies(books[b])

\* C7 witness: a book loaded full has one copy on loan and one rental returned.
C7_Witness ==
    \E b \in DOMAIN books :
        /\ loaded[b]["available_copies"] = total_copies(loaded[b])
        /\ Outstanding(b) # {}
        /\ Returned(b) # {}

RentSucceeds == resp'.op = "rent_book" /\ resp'.status = 200

ReturnSucceeds == resp'.op = "return_book" /\ resp'.status = 200

\* C3: a successful rent_book takes exactly 1 off available_copies of exactly
\* that book and adds exactly one record, under an id the ledger did not hold,
\* with that user_id, that book_id and returned_at = None; nothing else changes.
C3_RentEffect ==
    [][RentSucceeds =>
        LET b == resp'.book_id
            u == resp'.user_id
            r == resp'.rental_id
        IN  /\ b \in DOMAIN books
            /\ books' = [books EXCEPT ![b]["available_copies"] = @ - 1]
            /\ r \notin DOMAIN rentals
            /\ DOMAIN rentals' = DOMAIN rentals \cup {r}
            /\ rentals'[r].user_id = u
            /\ rentals'[r].book_id = b
            /\ rentals'[r].returned_at = None
            /\ \A x \in DOMAIN rentals : rentals'[x] = rentals[x]]_vars

\* C3 witness: a rent has succeeded on a ledger that already held a record,
\* with another book in the catalog.
C3_Witness ==
    /\ resp.op = "rent_book"
    /\ resp.status = 200
    /\ Cardinality(DOMAIN rentals) = 2
    /\ Cardinality(DOMAIN books) = 2
    /\ rentals[resp.rental_id].returned_at = None

\* C4: a successful return_book adds exactly 1 to available_copies of exactly
\* the rental's book and changes returned_at of exactly that rental from None
\* to a non-None value; no other rental or book changes, and a returned_at
\* that is set is never written again.
C4_ReturnEffect ==
    [][/\ ReturnSucceeds =>
            LET r == resp'.rental_id IN
            /\ r \in DOMAIN rentals
            /\ rentals[r].returned_at = None
            /\ rentals'[r].returned_at # None
            /\ rentals' = [rentals EXCEPT ![r].returned_at = rentals'[r].returned_at]
            /\ rentals[r].book_id \in DOMAIN books
            /\ books' = [books EXCEPT ![rentals[r].book_id]["available_copies"] = @ + 1]
       /\ \A x \in DOMAIN rentals :
            rentals[x].returned_at # None =>
                /\ x \in DOMAIN rentals'
                /\ rentals'[x].returned_at = rentals[x].returned_at]_vars

\* C4 witness: a return has succeeded while another rental stayed outstanding.
C4_Witness ==
    /\ resp.op = "return_book"
    /\ resp.status = 200
    /\ rentals[resp.rental_id].returned_at # None
    /\ \E x \in DOMAIN rentals : rentals[x].returned_at = None

ReturnOfReturned ==
    /\ resp'.op = "return_book"
    /\ resp'.rental_id \in DOMAIN rentals
    /\ rentals[resp'.rental_id].returned_at # None

\* C5 as stated: every return_book call for a rental already returned gets
\* 400 "already returned", whichever user_id the caller supplies.
C5_Original ==
    [][ReturnOfReturned =>
        (resp'.status = 400 /\ resp'.detail = "Book already returned")]_vars

\* C5 amended: every return_book call for a rental already returned fails and
\* changes nothing: with 400 "already returned" when the caller supplies the
\* rental's user_id, with 403 when the caller supplies another user_id.
C5_ReturnedOnce ==
    [][ReturnOfReturned =>
        /\ books' = books
        /\ rentals' = rentals
        /\ IF resp'.user_id = rentals[resp'.rental_id].user_id
           THEN resp'.status = 400 /\ resp'.detail = "Book already returned"
           ELSE resp'.status = 403]_vars

\* C5 witness: the owner's second return of a rental was refused.
C5_Witness ==
    /\ resp.op = "return_book"
    /\ resp.detail = "Book already returned"
    /\ resp.rental_id \in DOMAIN rentals
    /\ rentals[resp.rental_id].returned_at # None
    /\ rentals[resp.rental_id].user_id = resp.user_id

\* C6: a failing rent_book or return_book call (404, 400 or 403) leaves the
\* catalog and the ledger as they were; a return_book with a user_id other
\* than the rental's gets 403 and changes nothing.
C6_FailureChangesNothing ==
    [][/\ (resp'.op \in {"rent_book", "return_book"} /\ resp'.status # 200) =>
            /\ resp'.status \in {400, 403, 404}
            /\ books' = books
            /\ rentals' = rentals
       /\ (/\ resp'.op = "return_book"
           /\ resp'.rental_id \in DOMAIN rentals
           /\ rentals[resp'.rental_id].user_id # resp'.user_id) =>
            /\ resp'.status = 403
            /\ books' = books
            /\ rentals' = rentals]_vars

\* C6 witness: another user's return of an outstanding rental was refused.
C6_Witness ==
    /\ resp.op = "return_book"
    /\ resp.status = 403
    /\ resp.rental_id \in DOMAIN rentals
    /\ rentals[resp.rental_id].user_id # resp.user_id
    /\ rentals[resp.rental_id].returned_at = None

\* C8: rent_book succeeds exactly when the book is in the catalog, has
\* available_copies > 0 and the user holds no outstanding rental of it;
\* otherwise it reports the first failing check: 404 unknown book, then 400
\* "no copies", then 400 "already rented".
C8_RentChecksInOrder ==
    [][resp'.op = "rent_book" =>
        LET b == resp'.book_id
            u == resp'.user_id
        IN  IF b \notin DOMAIN books
            THEN resp'.status = 404 /\ resp'.detail = "Book was not found"
            ELSE IF books[b]["available_copies"] <= 0
            THEN /\ resp'.status = 400
                 /\ resp'.detail = "There are no copies of this book available for rent"
            ELSE IF HoldsCopy(u, b)
            THEN resp'.status = 400 /\ resp'.detail = "Book already rented by this user"
            ELSE resp'.status = 200]_vars

\* C8 witness: a user holding a copy of a book with 0 copies left asked for it
\* again and was told there are no copies.
C8_Witness ==
    /\ resp.op = "rent_book"
    /\ resp.detail = "There are no copies of this book available for rent"
    /\ HoldsCopy(resp.user_id, resp.book_id)

\* C9: return_book reports the first failing check in the order: unknown
\* rental id 404, another user's rental 403, already returned 400; the owner's
\* return of an outstanding rental succeeds.
C9_ReturnChecksInOrder ==
    [][resp'.op = "return_book" =>
        LET r == resp'.rental_id
            u == resp'.user_id
        IN  IF r \notin DOMAIN rentals
            THEN resp'.status = 404 /\ resp'.detail = "Rental not found"
            ELSE IF rentals[r].user_id # u
            THEN resp'.status = 403
            ELSE IF rentals[r].returned_at # None
            THEN resp'.status = 400 /\ resp'.detail = "Book already returned"
            ELSE resp'.status = 200]_vars

\* C9 witness: a return of an already-returned rental by a user who does not
\* own it was answered 403.
C9_Witness ==
    /\ resp.op = "return_book"
    /\ resp.status = 403
    /\ resp.rental_id \in DOMAIN rentals
    /\ rentals[resp.rental_id].user_id # resp.user_id
    /\ rentals[resp.rental_id].returned_at # None

ScenarioCatalog ==
    /\ "123" \in DOMAIN loaded
    /\ total_copies(loaded["123"]) = 2
    /\ loaded["123"]["available_copies"] = 2

\* C10: from book "123" loaded with total = available = 2 and an empty
\* ledger: alice rents (200, 1 left), alice rents again (400), bob rents
\* (200, 0 left), carol rents (400 no copies), alice returns her rental
\* (200, 1 left), alice returns it again (400).
C10_Scenario ==
    ScenarioCatalog =>
        /\ scn = 1 => resp.status = 200 /\ available("123") = 1
        /\ scn = 2 => /\ resp.status = 400
                      /\ resp.detail = "Book already rented by this user"
                      /\ available("123") = 1
        /\ scn = 3 => resp.status = 200 /\ available("123") = 0
        /\ scn = 4 => /\ resp.status = 400
                      /\ resp.detail = "There are no copies of this book available for rent"
                      /\ available("123") = 0
        /\ scn = 5 => resp.status = 200 /\ available("123") = 1
        /\ scn = 6 => /\ resp.status = 400
                      /\ resp.detail = "Book already returned"
                      /\ available("123") = 1

\* C10 witness: the six calls of the scenario have been made.
C10_Witness == ScenarioCatalog /\ scn = 6

OutstandingOf(u) ==
    {r \in DOMAIN rentals : rentals[r].user_id = u /\ rentals[r].returned_at = None}

\* The entry e is the book record of rental r with r's rented_at.
EntryOf(e, r) ==
    LET b == rentals[r].book_id IN
    /\ b \in DOMAIN books
    /\ DOMAIN books[b] \subseteq DOMAIN e
    /\ \A k \in DOMAIN books[b] : e[k] = books[b][k]
    /\ e.rented_at = rentals[r].rented_at

\* C11: list_user_books(user_id) answers 200 with exactly one entry per
\* ledger record of that user with returned_at = None, each the rental's book
\* record with the rental's rented_at, and nothing else; with no outstanding
\* rental the list is empty.
C11_ListsOutstandingRentals ==
    resp.op = "list_user_books" =>
        /\ resp.status = 200
        /\ BagCardinality(resp.book) = Cardinality(OutstandingOf(resp.user_id))
        /\ \A r \in OutstandingOf(resp.user_id) :
            \E e \in BagToSet(resp.book) : EntryOf(e, r)
        /\ \A e \in BagToSet(resp.book) :
            \E r \in OutstandingOf(resp.user_id) : EntryOf(e, r)

\* C11 witness: a user with one returned and one outstanding rental was
\* listed one entry.
C11_Witness ==
    /\ resp.op = "list_user_books"
    /\ BagCardinality(resp.book) = 1
    /\ \E r \in DOMAIN rentals :
        rentals[r].user_id = resp.user_id /\ rentals[r].returned_at # None

\* C12: the rent_book call a user makes for a book right after that user's
\* successful return of it succeeds, under an id the ledger did not hold, and
\* leaves the returned record as it was.
C12_RentAgainAfterReturn ==
    [][(/\ resp.op = "return_book"
        /\ resp.status = 200
        /\ resp'.op = "rent_book"
        /\ resp'.user_id = resp.user_id
        /\ resp'.book_id = rentals[resp.rental_id].book_id) =>
            /\ resp'.status = 200
            /\ resp'.rental_id \notin DOMAIN rentals
            /\ resp'.rental_id \in DOMAIN rentals'
            /\ rentals'[resp.rental_id] = rentals[resp.rental_id]
            /\ rentals'[resp.rental_id].returned_at # None]_vars

\* C12 witness: a user rented again a book that the same user had returned.
C12_Witness ==
    /\ resp.op = "rent_book"
    /\ resp.status = 200
    /\ \E r \in DOMAIN rentals :
        /\ r # resp.rental_id
        /\ rentals[r].user_id = resp.user_id
        /\ rentals[r].book_id = resp.book_id
        /\ rentals[r].returned_at # None

\* C13: for a readable source whose entries carry total_copies, every entry
\* is in the catalog after load(), with available_copies equal to its
\* total_copies when the entry carries no available_copies and with the
\* entry's own available_copies otherwise.
C13_LoadDefaultsAvailable ==
    (/\ source.ok
     /\ \A b \in DOMAIN source.books : "total_copies" \in DOMAIN source.books[b]) =>
        \A b \in DOMAIN source.books :
            /\ b \in DOMAIN books
            /\ loaded[b]["available_copies"] =
                IF "available_copies" \in DOMAIN source.books[b]
                THEN source.books[b]["available_copies"]
                ELSE source.books[b]["total_copies"]

\* C14: with handlers running on concurrent workers and no lock, checks and
\* writes being separate steps, available_copies stays within 0..total_copies
\* and no (user, book) pair has two outstanding rentals.
C14_InvariantsUnderInterleaving ==
    LoadedWithinTotal =>
        /\ \A b \in DOMAIN books :
            0 <= available(b) /\ available(b) <= total_copies(books[b])
        /\ \A u \in Users, b \in DOMAIN books :
            Cardinality({r \in Outstanding(b) : rentals[r].user_id = u}) <= 1

\* C15: no ledger record is ever removed; its user_id, book_id and rented_at
\* never change; a record is created with returned_at = None by a successful
\* rent_book; returned_at changes only from None to non-None, only in a
\* successful return_book of that rental by its own user, and never again.
C15_RentalLifecycle ==
    [][/\ \A r \in DOMAIN rentals :
            /\ r \in DOMAIN rentals'
            /\ rentals'[r].user_id = rentals[r].user_id
            /\ rentals'[r].book_id = rentals[r].book_id
            /\ rentals'[r].rented_at = rentals[r].rented_at
            /\ rentals[r].returned_at # None =>
                rentals'[r].returned_at = rentals[r].returned_at
            /\ rentals'[r].returned_at # rentals[r].returned_at =>
                /\ rentals[r].returned_at = None
                /\ resp'.op = "return_book"
                /\ resp'.status = 200
                /\ resp'.rental_id = r
                /\ resp'.user_id = rentals[r].user_id
       /\ \A r \in DOMAIN rentals' \ DOMAIN rentals :
            /\ rentals'[r].returned_at = None
            /\ resp'.op = "rent_book"
            /\ resp'.status = 200
            /\ resp'.rental_id = r]_vars

\* C15 witness: two rentals have each gone from outstanding to returned.
C15_Witness ==
    /\ Cardinality(DOMAIN rentals) = 2
    /\ \A r \in DOMAIN rentals : rentals[r].returned_at # None

ReadOps == {"list_books", "display_details", "list_user_books"}

\* C16: list_books, display_details and list_user_books leave the catalog and
\* the ledger as they were; no catalog book record ever gains a key (rental_id,
\* rented_at), and the set of catalog keys never changes.
C16_ReadsChangeNothing ==
    /\ [][resp'.op \in ReadOps => (books' = books /\ rentals' = rentals)]_vars
    /\ [](/\ DOMAIN books = DOMAIN loaded
          /\ \A b \in DOMAIN books : DOMAIN books[b] = DOMAIN loaded[b])

\* C16 witness: list_user_books has answered a list with an annotated entry.
C16_Witness ==
    /\ resp.op = "list_user_books"
    /\ \E e \in BagToSet(resp.book) :
        /\ "rented_at" \in DOMAIN e
        /\ "rented_at" \notin DOMAIN books[e.isbn]

\* C17: every entry list_user_books answers carries, as rental_id, the ledger
\* key of the outstanding rental it stands for.
C17_ListedRentalId ==
    resp.op = "list_user_books" =>
        \A e \in BagToSet(resp.book) :
            /\ e.rental_id \in OutstandingOf(resp.user_id)
            /\ rentals[e.rental_id].book_id = e.isbn

\* C18: every ledger record's book_id is a catalog key; return_book never
\* answers 404 "Book not found", list_user_books never skips a rental, and the
\* owner's return of an outstanding rental succeeds.
C18_LedgerBooksResolve ==
    /\ [](/\ \A r \in DOMAIN rentals : rentals[r].book_id \in DOMAIN books
          /\ resp.detail # "Book not found"
          /\ resp.op = "list_user_books" =>
                BagCardinality(resp.book) = Cardinality(OutstandingOf(resp.user_id)))
    /\ [][(/\ resp'.op = "return_book"
           /\ resp'.rental_id \in DOMAIN rentals
           /\ rentals[resp'.rental_id].user_id = resp'.user_id
           /\ rentals[resp'.rental_id].returned_at = None) => resp'.status = 200]_vars

\* C18 witness: the owner has returned a rental while another rental of the
\* same catalog was outstanding.
C18_Witness ==
    /\ resp.op = "return_book"
    /\ resp.status = 200
    /\ Cardinality(DOMAIN rentals) = 2
    /\ \A r \in DOMAIN rentals : rentals[r].book_id \in DOMAIN books

LoadFails ==
    \/ ~source.ok
    \/ \E b \in DOMAIN source.books :
        /\ "available_copies" \notin DOMAIN source.books[b]
        /\ "totalCopies" \notin DOMAIN source.books[b]

\* C19: when load() fails (unreadable or malformed source, or an error on one
\* entry) the catalog is empty, not partly filled, requests are still answered,
\* display_details and rent_book answer 404 for every book id, and list_books
\* answers an empty list.
C19_FailedLoadEmptyCatalog ==
    LoadFails =>
        /\ books = <<>>
        /\ resp.op \in {"display_details", "rent_book"} => resp.status = 404
        /\ resp.op = "list_books" => (resp.status = 200 /\ resp.book = EmptyBag)

\* C19 witness: of two source entries one could not be normalized, and a rent
\* of a book of that source was answered 404.
C19_Witness ==
    /\ source.ok
    /\ DOMAIN source.books = BookIds
    /\ \E b \in BookIds : "totalCopies" \in DOMAIN source.books[b]
    /\ LoadFails
    /\ resp.op = "rent_book"
    /\ resp.book_id \in BookIds
    /\ resp.status = 404

====
